---- MODULE Spec2Model ----
(***************************************************************************)
(* Model of the permission resolution engine of react-rbac-permissions     *)
(* (src/src/create-permissions.tsx): the catalog of permissions, wildcard  *)
(* expansion, and the depth-first resolution of a role's permissions over  *)
(* the inheritance graph.                                                  *)
(*                                                                         *)
(* Strings that the code parses or builds (resource names, action names,   *)
(* permission patterns) are sequences of one-character strings, so that    *)
(* `${resource}:${action}`, endsWith(":*") and slice(0, -2) are computed   *)
(* as the code computes them.  Role names are only compared, never parsed, *)
(* and are plain strings.                                                  *)
(***************************************************************************)
EXTENDS Integers, Sequences, FiniteSets, TLC

VARIABLES
    roles,          \* config.roles: the list of declared roles
    resources,      \* config.resources: own keys -> list of actions
    permissions,    \* config.permissions: role -> [can, inherits]
    allRoles,       \* the engine's Set of roles
    allPermissions, \* the engine's catalog
    built,          \* createPermissions returned an engine (it did not throw)
    call,           \* the last top-level engine call: [op, arg]
    ret,            \* its outcome: [threw, value]
    stack,          \* frames of a resolvePermissions call run step by step
    seen,           \* the visited set of that call
    expanded,       \* how often each role's can list was expanded in that call
    steps,          \* steps taken by that call
    status,         \* "idle", "running", "returned" or "threw"
    context,        \* per engine, what its PermissionContext provides to the
                    \* consumers: null, or the value of a PermissionProvider
    rendered,       \* what the last rendered Can put on the page
    kept,           \* per role, the outcome a caller kept of a finished
                    \* resolvePermissions call, to compare later ones with
    rolesArray,     \* the contents of the array object that the caller holds
                    \* and may pass as the roles prop
    memo            \* per engine, the dependency that useMemo of the mounted
                    \* PermissionProvider stored: which array object

config == <<roles, resources, permissions>>
engine == <<allRoles, allPermissions, built>>
stepper == <<stack, seen, expanded, steps, status>>
binding == <<context, rendered, rolesArray, memo>>
vars == <<roles, resources, permissions, allRoles, allPermissions, built,
          call, ret,
          stack, seen, expanded, steps, status,
          context, rendered, kept, rolesArray, memo>>

----------------------------------------------------------------------------
(* Bounds of the model. *)

\* longest inherits list of a role entry
MaxInherits == 2
\* longest role list passed to resolveMultipleRoles
MaxRoleList == 2
\* longest action list of a resource
MaxActions == 2
\* longest permission list passed to canAll, canAny or Can
MaxPermList == 2

----------------------------------------------------------------------------
(* Strings. *)

Colon == <<":">>
Star == <<"*">>
ColonStar == <<":", "*">>

\* s.endsWith(suffix)
endsWith(s, suffix) ==
    /\ Len(s) >= Len(suffix)
    /\ SubSeq(s, Len(s) - Len(suffix) + 1, Len(s)) = suffix

\* s.slice(0, -n)
sliceOff(s, n) == SubSeq(s, 1, Len(s) - n)

\* `${resource}:${action}`
render(resource, action) == resource \o Colon \o action

Range(s) == {s[i] : i \in DOMAIN s}

\* All sequences over S of length at most n.
SeqsUpTo(S, n) == UNION {[1..k -> S] : k \in 0..n}

\* Those without a repeated element.
DistinctSeqsUpTo(S, n) ==
    {s \in SeqsUpTo(S, n) : \A i, j \in DOMAIN s : i # j => s[i] # s[j]}

----------------------------------------------------------------------------
(* The policy as JavaScript objects. *)

\* Names that every plain object answers through Object.prototype: a lookup
\* resources[name] of such a name that is no own key yields the inherited
\* member (a function; for __proto__ the prototype object), not undefined.
ObjectPrototypeKeys ==
    { <<"v","a","l","u","e","O","f">>,
      <<"t","o","S","t","r","i","n","g">>,
      <<"c","o","n","s","t","r","u","c","t","o","r">>,
      <<"_","_","p","r","o","t","o","_","_">> }

\* resources[resource]: the own key's action list, an inherited member of
\* Object.prototype, or undefined.
resourcesGet(resource) ==
    IF resource \in DOMAIN resources
    THEN [kind |-> "array", actions |-> resources[resource]]
    ELSE IF resource \in ObjectPrototypeKeys
         THEN [kind |-> "inherited"]
         ELSE [kind |-> "undefined"]

\* The outcome of a call: a returned value or a thrown TypeError.
Returned(v) == [threw |-> FALSE, value |-> v]
Thrown == [threw |-> TRUE, value |-> {}]

----------------------------------------------------------------------------
(* createPermissions: the catalog and the role set. *)

\* new Set(roles)
makeAllRoles(roleList) == Range(roleList)

\* Only the first action of each resource is entered in the catalog.
makeAllPermissionsFirstAction(res) ==
    { render(resource, res[resource][1])
        : resource \in {r \in DOMAIN res : res[r] # << >>} }

\* new Set(Object.entries(resources).flatMap(([resource, actions]) =>
\*     actions.map((action) => `${resource}:${action}`)))
makeAllPermissions(res) ==
    UNION { {render(resource, res[resource][i]) : i \in DOMAIN res[resource]}
            : resource \in DOMAIN res }

\* The wildcard pattern itself is returned with the entries.
getResourcePermissionsAndPattern(resource) ==
    LET actions == resourcesGet(resource) IN
    CASE actions.kind = "undefined" -> Returned({})
      [] actions.kind = "inherited" -> Thrown
      [] actions.kind = "array" ->
            Returned({render(resource, Star)}
                     \cup {render(resource, actions.actions[i])
                             : i \in DOMAIN actions.actions})

\* getResourcePermissions(resource)
getResourcePermissions(resource) ==
    LET actions == resourcesGet(resource) IN
    CASE actions.kind = "undefined" -> Returned({})
      [] actions.kind = "inherited" -> Thrown    \* actions.map is not a function
      [] actions.kind = "array" ->
            Returned({render(resource, actions.actions[i])
                        : i \in DOMAIN actions.actions})

\* The global wildcard is not recognised and is kept as a literal.
expandPermissionStarLiteral(permission) ==
    IF endsWith(permission, ColonStar)
    THEN getResourcePermissions(sliceOff(permission, 2))
    ELSE Returned({permission})

\* A literal is checked against the catalog and dropped when it is not in it.
expandPermissionValidated(permission) ==
    IF permission = Star THEN Returned(allPermissions)
    ELSE IF endsWith(permission, ColonStar)
         THEN getResourcePermissions(sliceOff(permission, 2))
         ELSE Returned({permission} \cap allPermissions)

\* expandPermission(permission)
expandPermission(permission) ==
    IF permission = Star THEN Returned(allPermissions)
    ELSE IF endsWith(permission, ColonStar)
         THEN getResourcePermissions(sliceOff(permission, 2))
         ELSE Returned({permission})

----------------------------------------------------------------------------
(* Resolution. *)

\* The outcome of resolvePermissions(role, seen): the returned set, or a
\* thrown TypeError, and the caller's seen set as the call left it.
Resolved(perms, sn) == [threw |-> FALSE, value |-> perms, seen |-> sn]
Failed(sn) == [threw |-> TRUE, value |-> {}, seen |-> sn]

\* roleConfig.can.forEach((p) => expandPermission(p).forEach(... perms.add))
RECURSIVE expandCan(_, _, _)
expandCan(can, i, perms) ==
    IF i > Len(can) THEN Returned(perms)
    ELSE LET e == expandPermission(can[i]) IN
         IF e.threw THEN Thrown
         ELSE expandCan(can, i + 1, perms \cup e.value)

\* Only the first inherited role is followed.
inheritsFirstOnly(roleConfig) ==
    IF "inherits" \in DOMAIN roleConfig /\ roleConfig.inherits # << >>
    THEN <<roleConfig.inherits[1]>> ELSE << >>

\* roleConfig.inherits, the empty list standing for an absent one
\* (roleConfig.inherits?.forEach does nothing then)
inheritsOf(roleConfig) ==
    IF "inherits" \in DOMAIN roleConfig THEN roleConfig.inherits ELSE << >>

RECURSIVE resolvePermissions(_, _)
RECURSIVE resolveInherited(_, _, _, _)

\* A resolver that never adds what the inherited roles grant.
resolveInheritedDropped(inherits, i, perms, sn) == Resolved(perms, sn)

\* What an inherited role grants replaces what was collected before it.
resolveInheritedReplacing(inherits, i, perms, sn) ==
    IF i > Len(inherits) THEN Resolved(perms, sn)
    ELSE LET r == resolvePermissions(inherits[i], sn) IN
         IF r.threw THEN Failed(r.seen)
         ELSE resolveInherited(inherits, i + 1, r.value, r.seen)

\* roleConfig.inherits?.forEach((inheritedRole) =>
\*     resolvePermissions(inheritedRole, seen).forEach((p) => perms.add(p)))
resolveInherited(inherits, i, perms, sn) ==
    IF i > Len(inherits) THEN Resolved(perms, sn)
    ELSE LET r == resolvePermissions(inherits[i], sn) IN
         IF r.threw THEN Failed(r.seen)
         ELSE resolveInherited(inherits, i + 1, perms \cup r.value, r.seen)

\* resolvePermissions(role, seen)
resolvePermissions(role, sn) ==
    IF role \in sn THEN Resolved({}, sn)
    ELSE LET sn1 == sn \cup {role} IN
         IF role \notin DOMAIN permissions
         THEN Failed(sn1)   \* roleConfig is undefined: roleConfig.can throws
         ELSE LET roleConfig == permissions[role]
                  own == expandCan(roleConfig.can, 1, {})
              IN  IF own.threw THEN Failed(sn1)
                  ELSE resolveInherited(inheritsOf(roleConfig), 1, own.value, sn1)

\* resolvePermissions(role), seen defaulting to a new Set
resolveTop(role) ==
    LET r == resolvePermissions(role, {}) IN
    IF r.threw THEN Thrown ELSE Returned(r.value)

\* The visited set that the caller passes is ignored.
resolveWithSeenFresh(role, sn) ==
    LET r == resolvePermissions(role, {}) IN [r EXCEPT !.seen = sn \cup r.seen]

\* The role of the call itself is not tested against the visited set.
resolveWithSeenUntested(role, sn) == resolvePermissions(role, sn \ {role})

\* The exported resolvePermissions(role, seen), the caller passing its own
\* Set as seen: the outcome and that Set as the call leaves it.
resolveWithSeen(role, sn) == resolvePermissions(role, sn)

\* resolveMultipleRoles(userRoles)
RECURSIVE resolveEach(_, _, _)

\* The loop stops after the first role of the list.
resolveEachFirstOnly(userRoles, i, perms) ==
    IF userRoles = << >> THEN Returned({})
    ELSE resolveTop(userRoles[1])

\* Each role's set replaces the accumulated one instead of being added to it.
resolveEachLastWins(userRoles, i, perms) ==
    IF userRoles = << >> THEN Returned({})
    ELSE resolveTop(userRoles[Len(userRoles)])

resolveEach(userRoles, i, perms) ==
    IF i > Len(userRoles) THEN Returned(perms)
    ELSE LET r == resolveTop(userRoles[i]) IN
         IF r.threw THEN Thrown
         ELSE resolveEach(userRoles, i + 1, perms \cup r.value)

resolveMultipleRoles(userRoles) == resolveEach(userRoles, 1, {})

\* getPermissionsForRole(role)
getPermissionsForRole(role) == resolveTop(role)

\* Only what a role's own can list grants is looked at.
getRolesWithPermissionDirect(permission) ==
    IF \E role \in allRoles : resolveTop(role).threw
    THEN Thrown
    ELSE Returned({role \in allRoles :
            permission \in expandCan(permissions[role].can, 1, {}).value})

\* getRolesWithPermission(permission): the first resolvePermissions(role) that
\* throws ends the allRoles.forEach
getRolesWithPermission(permission) ==
    IF \E role \in allRoles : resolveTop(role).threw
    THEN Thrown
    ELSE Returned({role \in allRoles : permission \in resolveTop(role).value})

----------------------------------------------------------------------------
(* The policies and inputs explored. *)

\* resource and action names; ResPR and ActRC contain a colon themselves
ResP == <<"p">>
ResU == <<"u">>
ResPR == <<"p", ":", "r">>
ResGhost == <<"g">>
ResValueOf == <<"v","a","l","u","e","O","f">>
ActR == <<"r">>
ActC == <<"c">>
ActRC == <<"r", ":", "c">>

\* a literal of no declared resource
LitXY == <<"x", ":", "y">>

RoleUniverse == {"A", "B", "C"}

\* config.roles: with <<"A", "B">>, role C is not declared
RoleLists == { <<"A", "B">>, <<"A", "B", "C">> }

\* the resources of the policies that vary the role graph
GraphResources == (ResP :> <<ActC, ActR>>) @@ (ResU :> <<ActR>>)

\* the can lists a role entry is given: literals, a resource wildcard, a
\* literal of no declared resource, a wildcard of an undeclared resource
CanChoices(role) ==
    CASE role = "A" -> { <<render(ResP, ActR)>> }
      [] role = "B" -> { << >>, <<render(ResP, Star), LitXY>> }
      [] role = "C" -> { <<render(ResU, ActR)>>, <<render(ResValueOf, Star)>> }

Rank(role) == CASE role = "A" -> 1 [] role = "B" -> 2 [] role = "C" -> 3

\* the inherits lists a role entry is given, in every order: declared or
\* undeclared roles, the role itself included
InheritsOrders == DistinctSeqsUpTo(RoleUniverse, MaxInherits)

\* the same lists in one order each
InheritsChoices ==
    {s \in InheritsOrders : \A i, j \in DOMAIN s : i < j => Rank(s[i]) < Rank(s[j])}

\* the entries of one role, its inherits list drawn from lists; role A also
\* without the optional inherits
RoleEntries(role, lists) ==
    {[can |-> c, inherits |-> i] : c \in CanChoices(role), i \in lists}
    \cup {[can |-> c] : c \in IF role = "A" THEN CanChoices(role) ELSE {}}

\* config.permissions over the declared roles; only role A's inherits list
\* is drawn from listsA
PermissionsOver(roleSet, listsA) ==
    LET E(r) == RoleEntries(r, IF r = "A" THEN listsA ELSE InheritsChoices) IN
    {f \in [roleSet -> UNION {E(r) : r \in roleSet}] :
        \A r \in roleSet : f[r] \in E(r)}

\* the permissions asked about: of the catalog, granted as a literal of no
\* resource, and granted by no role
QueryPermissions ==
    { render(ResP, ActR), render(ResP, ActC), render(ResU, ActR), LitXY,
      render(ResGhost, ActR) }

NoCall == [op |-> "none", arg |-> << >>]

\* the roles a traversal can meet
StepRoles == RoleUniverse \cup allRoles

StepperIdle ==
    /\ stack = << >>
    /\ seen = {}
    /\ expanded = [r \in StepRoles |-> 0]
    /\ steps = 0
    /\ status = "idle"

\* createPermissions is called twice with the config: each call makes its own
\* PermissionContext, PermissionProvider, usePermissions and Can.
Engines == {"engine", "other"}

\* createContext<ContextValue | null>(null): the default value
Null == [provided |-> FALSE]

\* nothing is kept of a role
NotKept == [op |-> "none"]

\* No tree is rendered, and the caller holds no result.
NothingRendered ==
    /\ context = [e \in Engines |-> Null]
    /\ rendered = {}
    /\ kept = [r \in RoleUniverse |-> NotKept]
    /\ rolesArray = << >>
    /\ memo = [e \in Engines |-> "none"]

\* The state after createPermissions(config): it checks nothing about the
\* config, builds allRoles and allPermissions and returns the engine.
createPermissions(roleList, res, perms) ==
    /\ roles = roleList
    /\ resources = res
    /\ permissions = perms
    /\ allRoles = makeAllRoles(roleList)
    /\ allPermissions = makeAllPermissions(res)
    /\ built = TRUE

Init ==
    /\ \E roleList \in RoleLists :
         \E perms \in PermissionsOver(Range(roleList), InheritsChoices) :
            createPermissions(roleList, GraphResources, perms)
    /\ call = NoCall
    /\ ret = Returned({})
    /\ StepperIdle
    /\ NothingRendered

\* The same policies, with role A's inherits list in every order.
InitStep ==
    /\ \E roleList \in RoleLists :
         \E perms \in PermissionsOver(Range(roleList), InheritsOrders) :
            createPermissions(roleList, GraphResources, perms)
    /\ call = NoCall
    /\ ret = Returned({})
    /\ StepperIdle
    /\ NothingRendered

----------------------------------------------------------------------------
(* Top-level calls on the engine, one at a time: the code is synchronous.  *)

CallResolvePermissions(role) ==
    /\ call = NoCall
    /\ call' = [op |-> "resolvePermissions", arg |-> role]
    /\ ret' = resolveTop(role)
    /\ UNCHANGED <<config, engine, binding, kept, stepper>>

CallResolveMultipleRoles(userRoles) ==
    /\ call = NoCall
    /\ call' = [op |-> "resolveMultipleRoles", arg |-> userRoles]
    /\ ret' = resolveMultipleRoles(userRoles)
    /\ UNCHANGED <<config, engine, binding, kept, stepper>>

CallGetRolesWithPermission(permission) ==
    /\ call = NoCall
    /\ call' = [op |-> "getRolesWithPermission", arg |-> permission]
    /\ ret' = getRolesWithPermission(permission)
    /\ UNCHANGED <<config, engine, binding, kept, stepper>>

\* getPermissionsForRole(role) is called on the engine.
CallGetPermissionsForRole(role) ==
    /\ call = NoCall
    /\ call' = [op |-> "getPermissionsForRole", arg |-> role]
    /\ ret' = getPermissionsForRole(role)
    /\ UNCHANGED <<config, engine, binding, kept, stepper>>

\* The Set a caller passes as seen: a Set of its own, or allRoles of the
\* engine, which is a Set of roles too.
SeenArgs ==
    {[object |-> "allRoles"]}
    \cup {[object |-> "own", items |-> S] : S \in SUBSET RoleUniverse}

seenOf(seenArg) ==
    IF seenArg.object = "allRoles" THEN allRoles ELSE seenArg.items

\* resolvePermissions(role, seen) is called on the engine: seen.add works on
\* the Set that was passed.
CallResolveWithSeen(role, seenArg) ==
    /\ call = NoCall
    /\ call' = [op |-> "resolvePermissions(seen)", arg |-> role,
                seen |-> seenArg]
    /\ ret' = resolveWithSeen(role, seenOf(seenArg))
    /\ allRoles' = IF seenArg.object = "allRoles" THEN ret'.seen ELSE allRoles
    /\ UNCHANGED <<config, allPermissions, built, binding, kept, stepper>>

\* The caller is done with the returned set (or has caught the error): the
\* engine, which kept nothing of the call, takes the next one.
Discard ==
    /\ call # NoCall
    /\ call' = NoCall
    /\ ret' = Returned({})
    /\ UNCHANGED <<config, engine, binding, kept, stepper>>

Next ==
    \/ \E role \in allRoles : CallResolvePermissions(role)
    \/ \E userRoles \in SeqsUpTo(allRoles, MaxRoleList) :
          CallResolveMultipleRoles(userRoles)
    \/ \E permission \in QueryPermissions :
          CallGetRolesWithPermission(permission)
    \/ Discard

Spec == Init /\ [][Next]_vars

----------------------------------------------------------------------------
(* Policies that vary the resources and grant one pattern to one role. *)

\* the names that may be own keys of resources: one contains a colon, one is
\* also a member of Object.prototype
ExpandResources == {ResP, ResPR, ResValueOf}

\* the action names: one contains a colon, one is an asterisk
ExpandActions == {ActC, ActRC, Star}

ResourceConfigs ==
    UNION { [keys -> DistinctSeqsUpTo(ExpandActions, MaxActions)]
            : keys \in SUBSET ExpandResources }

\* the patterns granted: the global wildcard, wildcards of declared and of
\* undeclared resources, literals in and out of the catalog
ExpandPatterns ==
    { Star,
      render(ResP, Star), render(ResPR, Star), render(ResValueOf, Star),
      render(ResGhost, Star),
      render(ResP, ActC), render(ResP, ActRC), LitXY, ResP }

InitExpand ==
    /\ \E res \in ResourceConfigs, pattern \in ExpandPatterns :
          createPermissions(<<"A">>, res, [r \in {"A"} |-> [can |-> <<pattern>>]])
    /\ call = NoCall
    /\ ret = Returned({})
    /\ StepperIdle
    /\ NothingRendered

\* expandPermission(permission), for a pattern of the policy
CallExpandPermission(permission) ==
    /\ call = NoCall
    /\ call' = [op |-> "expandPermission", arg |-> permission]
    /\ ret' = expandPermission(permission)
    /\ UNCHANGED <<config, engine, binding, kept, stepper>>

NextExpand ==
    \/ \E role \in allRoles : CallResolvePermissions(role)
    \/ \E userRoles \in SeqsUpTo(allRoles, MaxRoleList) :
          CallResolveMultipleRoles(userRoles)
    \/ \E role \in allRoles : \E i \in DOMAIN permissions[role].can :
          CallExpandPermission(permissions[role].can[i])
    \/ Discard

SpecExpand == InitExpand /\ [][NextExpand]_vars

----------------------------------------------------------------------------
(* The inheritance graph, as the claims speak of it. *)

\* the roles a role entry names in its inherits list
InheritedBy(role) ==
    IF role \in DOMAIN permissions /\ "inherits" \in DOMAIN permissions[role]
    THEN Range(permissions[role].inherits)
    ELSE {}

RECURSIVE ReachFrom(_)
ReachFrom(S) ==
    LET T == S \cup UNION {InheritedBy(r) : r \in S} IN
    IF T = S THEN S ELSE ReachFrom(T)

\* the roles reachable from role by zero or more inherits edges
Reachable(role) == ReachFrom({role})

\* every inherits entry names a declared role
WellFormed == \A r \in DOMAIN permissions : InheritedBy(r) \subseteq allRoles

\* the patterns granted by the declared roles of a set
PatternsOf(S) ==
    UNION {Range(permissions[r].can) : r \in S \cap DOMAIN permissions}

OnCommonCycle(a, b) == a # b /\ b \in Reachable(a) /\ a \in Reachable(b)

----------------------------------------------------------------------------
(* The React binding: PermissionProvider, usePermissions and Can.  A tree  *)
(* is rendered with a PermissionProvider of an engine above the consumers, *)
(* or without one.                                                         *)

\* throw new Error("usePermissions must be used within PermissionProvider")
ContextError ==
    [threw |-> TRUE, value |-> {},
     message |-> "usePermissions must be used within PermissionProvider"]

\* Only the first of the roles is resolved.
providerValueFirstRole(userRoles) ==
    LET perms == IF userRoles = << >> THEN Returned({})
                 ELSE resolveTop(userRoles[1]) IN
    IF perms.threw THEN Thrown
    ELSE Returned([provided |-> TRUE,
                   roles |-> userRoles,
                   permissions |-> perms.value,
                   roleSet |-> Range(userRoles)])

\* The factory of useMemo in PermissionProvider: the context value, of which
\* perms and roleSet are what its functions close over.
providerValue(userRoles) ==
    LET perms == resolveMultipleRoles(userRoles) IN
    IF perms.threw THEN Thrown
    ELSE Returned([provided |-> TRUE,
                   roles |-> userRoles,
                   permissions |-> perms.value,
                   roleSet |-> Range(userRoles)])

\* can: (permission) => perms.has(permission)
can(value, permission) == permission \in value.permissions

\* An empty list is refused.
canAllNonEmpty(value, p) ==
    p # << >> /\ \A i \in DOMAIN p : p[i] \in value.permissions

\* canAll: (p) => p.every((perm) => perms.has(perm))
canAll(value, p) == \A i \in DOMAIN p : p[i] \in value.permissions

\* Only the first permission of the list is looked at.
canAnyFirst(value, p) == p # << >> /\ p[1] \in value.permissions

\* canAny: (p) => p.some((perm) => perms.has(perm))
canAny(value, p) == \E i \in DOMAIN p : p[i] \in value.permissions

\* A role inherited by an active role counts as held.
hasRoleInherited(value, role) == role \in ReachFrom(value.roleSet)

\* hasRole: (role) => roleSet.has(role)
hasRole(value, role) == role \in value.roleSet

\* some in the place of every
hasAllRolesSome(value, r) == \E i \in DOMAIN r : r[i] \in value.roleSet

\* hasAllRoles: (r) => r.every((role) => roleSet.has(role))
hasAllRoles(value, r) == \A i \in DOMAIN r : r[i] \in value.roleSet

\* hasAnyRole: (r) => r.some((role) => roleSet.has(role))
hasAnyRole(value, r) == \E i \in DOMAIN r : r[i] \in value.roleSet

\* The lookup answers about the active roles only.
valueGetPermissionsForRoleActive(value, role) ==
    IF role \in value.roleSet THEN getPermissionsForRole(role)
    ELSE Returned({})

\* getPermissionsForRole and getRolesWithPermission of the context value are
\* the functions of the engine.
valueGetPermissionsForRole(value, role) == getPermissionsForRole(role)

valueGetRolesWithPermission(value, permission) ==
    getRolesWithPermission(permission)

\* Without a provider a value that grants nothing is returned.
usePermissionsDefault(e) ==
    IF context[e] = Null
    THEN Returned([provided |-> FALSE, roles |-> << >>,
                   permissions |-> {}, roleSet |-> {}])
    ELSE Returned(context[e])

\* usePermissions() of an engine, called by a consumer
usePermissions(e) ==
    IF context[e] = Null THEN ContextError ELSE Returned(context[e])

\* The props of Can: do is one permission or an array of permissions; mode
\* and fallback are optional and default to "all" and null.
propModeAny(props) == IF "mode" \in DOMAIN props THEN props.mode ELSE "any"
propMode(props) == IF "mode" \in DOMAIN props THEN props.mode ELSE "all"
propFallback(props) ==
    IF "fallback" \in DOMAIN props THEN {props.fallback} ELSE {}

\* An empty list of permissions is taken to deny, in either mode.
CanEmptyDenies(e, props) ==
    LET c == usePermissions(e) IN
    IF c.threw THEN c
    ELSE LET perms == IF props.do.isArray THEN props.do.items
                      ELSE <<props.do.item>>
             hasAccess == /\ perms # << >>
                          /\ IF propMode(props) = "all"
                             THEN canAll(c.value, perms)
                             ELSE canAny(c.value, perms)
         IN  Returned(IF hasAccess THEN {props.children}
                      ELSE propFallback(props))

\* Can(props): the set of the nodes the fragment renders, null rendering
\* nothing
Can(e, props) ==
    LET c == usePermissions(e) IN
    IF c.threw THEN c
    ELSE LET perms == IF props.do.isArray THEN props.do.items
                      ELSE <<props.do.item>>
             hasAccess == IF propMode(props) = "all"
                          THEN canAll(c.value, perms)
                          ELSE canAny(c.value, perms)
         IN  Returned(IF hasAccess THEN {props.children}
                      ELSE propFallback(props))

\* PermissionProvider of an engine is mounted with an array made for this
\* render as the roles prop: useMemo runs its factory; when
\* resolveMultipleRoles throws the render fails and nothing is provided.
RenderProvider(e, userRoles) ==
    /\ call = NoCall
    /\ context[e] = Null
    /\ call' = [op |-> "PermissionProvider", arg |-> userRoles, engine |-> e]
    /\ ret' = providerValue(userRoles)
    /\ context' = IF ret'.threw THEN context
                  ELSE [context EXCEPT ![e] = ret'.value]
    /\ memo' = IF ret'.threw THEN memo ELSE [memo EXCEPT ![e] = "literal"]
    /\ UNCHANGED <<config, engine, rendered, kept, rolesArray, stepper>>

\* The tree with the PermissionProvider of an engine is unmounted.
Unmount(e) ==
    /\ call = NoCall
    /\ context[e] # Null
    /\ context' = [context EXCEPT ![e] = Null]
    /\ memo' = [memo EXCEPT ![e] = "none"]
    /\ rendered' = {}
    /\ UNCHANGED <<config, engine, call, ret, kept, rolesArray, stepper>>

\* A consumer calls usePermissions().
CallUsePermissions(e) ==
    /\ call = NoCall
    /\ call' = [op |-> "usePermissions", arg |-> << >>, engine |-> e]
    /\ ret' = usePermissions(e)
    /\ UNCHANGED <<config, engine, binding, kept, stepper>>

\* A consumer calls usePermissions() and then a function of the value.
CallCan(e, permission) ==
    /\ call = NoCall
    /\ call' = [op |-> "can", arg |-> permission, engine |-> e]
    /\ ret' = LET c == usePermissions(e) IN
              IF c.threw THEN c ELSE Returned(can(c.value, permission))
    /\ UNCHANGED <<config, engine, binding, kept, stepper>>

CallCanAll(e, p) ==
    /\ call = NoCall
    /\ call' = [op |-> "canAll", arg |-> p, engine |-> e]
    /\ ret' = LET c == usePermissions(e) IN
              IF c.threw THEN c ELSE Returned(canAll(c.value, p))
    /\ UNCHANGED <<config, engine, binding, kept, stepper>>

CallCanAny(e, p) ==
    /\ call = NoCall
    /\ call' = [op |-> "canAny", arg |-> p, engine |-> e]
    /\ ret' = LET c == usePermissions(e) IN
              IF c.threw THEN c ELSE Returned(canAny(c.value, p))
    /\ UNCHANGED <<config, engine, binding, kept, stepper>>

CallHasRole(e, role) ==
    /\ call = NoCall
    /\ call' = [op |-> "hasRole", arg |-> role, engine |-> e]
    /\ ret' = LET c == usePermissions(e) IN
              IF c.threw THEN c ELSE Returned(hasRole(c.value, role))
    /\ UNCHANGED <<config, engine, binding, kept, stepper>>

CallHasAllRoles(e, r) ==
    /\ call = NoCall
    /\ call' = [op |-> "hasAllRoles", arg |-> r, engine |-> e]
    /\ ret' = LET c == usePermissions(e) IN
              IF c.threw THEN c ELSE Returned(hasAllRoles(c.value, r))
    /\ UNCHANGED <<config, engine, binding, kept, stepper>>

CallHasAnyRole(e, r) ==
    /\ call = NoCall
    /\ call' = [op |-> "hasAnyRole", arg |-> r, engine |-> e]
    /\ ret' = LET c == usePermissions(e) IN
              IF c.threw THEN c ELSE Returned(hasAnyRole(c.value, r))
    /\ UNCHANGED <<config, engine, binding, kept, stepper>>

CallValueGetPermissionsForRole(e, role) ==
    /\ call = NoCall
    /\ call' = [op |-> "value.getPermissionsForRole", arg |-> role,
                engine |-> e]
    /\ ret' = LET c == usePermissions(e) IN
              IF c.threw THEN c ELSE valueGetPermissionsForRole(c.value, role)
    /\ UNCHANGED <<config, engine, binding, kept, stepper>>

CallValueGetRolesWithPermission(e, permission) ==
    /\ call = NoCall
    /\ call' = [op |-> "value.getRolesWithPermission", arg |-> permission,
                engine |-> e]
    /\ ret' = LET c == usePermissions(e) IN
              IF c.threw THEN c
              ELSE valueGetRolesWithPermission(c.value, permission)
    /\ UNCHANGED <<config, engine, binding, kept, stepper>>

\* Can of an engine is rendered with props: when usePermissions throws the
\* render fails and nothing is on the page.
RenderCan(e, props) ==
    /\ call = NoCall
    /\ call' = [op |-> "Can", arg |-> props, engine |-> e]
    /\ ret' = Can(e, props)
    /\ rendered' = IF ret'.threw THEN {} ELSE ret'.value
    /\ UNCHANGED <<config, engine, context, kept, rolesArray, memo, stepper>>

\* the policies under the binding: A grants p:r and inherits B or nothing, B
\* grants nothing or p:* and x:y, C grants u:r or valueOf:*
BindingPolicies ==
    {perms \in PermissionsOver(RoleUniverse, InheritsChoices) :
        /\ "inherits" \in DOMAIN perms["A"] => perms["A"].inherits = <<"B">>
        /\ inheritsOf(perms["B"]) = << >>
        /\ inheritsOf(perms["C"]) = << >>}

\* the permissions in the lists passed to canAll, canAny and Can
AskedPermissions == {render(ResP, ActR), render(ResP, ActC), render(ResU, ActR)}

PermLists == SeqsUpTo(AskedPermissions, MaxPermList)

\* the do prop: one permission, or an array
DoProps ==
    {[isArray |-> FALSE, item |-> permission] : permission \in AskedPermissions}
    \cup {[isArray |-> TRUE, items |-> p] : p \in PermLists}

CanProps ==
    LET Modes == {"all", "any"}
        Nodes == {"fallback"}
    IN  {[do |-> d, children |-> "children"] : d \in DoProps}
        \cup {[do |-> d, children |-> "children", mode |-> m]
                : d \in DoProps, m \in Modes}
        \cup {[do |-> d, children |-> "children", fallback |-> f]
                : d \in DoProps, f \in Nodes}
        \cup {[do |-> d, children |-> "children", mode |-> m, fallback |-> f]
                : d \in DoProps, m \in Modes, f \in Nodes}

\* the roles props of the providers: any list for the engine, one list for
\* the other engine
RolesProps(e) ==
    IF e = "engine" THEN SeqsUpTo(allRoles, MaxRoleList) ELSE {<<"A">>}

\* the props of the Can components: any for the engine, those of do and
\* children alone for the other engine
CanPropsOf(e) ==
    IF e = "engine" THEN CanProps
    ELSE {props \in CanProps : DOMAIN props = {"do", "children"}}

InitBinding ==
    /\ \E perms \in BindingPolicies :
          createPermissions(<<"A", "B", "C">>, GraphResources, perms)
    /\ call = NoCall
    /\ ret = Returned({})
    /\ StepperIdle
    /\ NothingRendered

NextBinding ==
    \/ \E e \in Engines : \E userRoles \in RolesProps(e) :
          RenderProvider(e, userRoles)
    \/ \E e \in Engines : Unmount(e)
    \/ \E e \in Engines : CallUsePermissions(e)
    \/ \E permission \in QueryPermissions : CallCan("engine", permission)
    \/ \E p \in PermLists : CallCanAll("engine", p)
    \/ \E p \in PermLists : CallCanAny("engine", p)
    \/ \E role \in allRoles : CallHasRole("engine", role)
    \/ \E r \in SeqsUpTo(allRoles, MaxRoleList) : CallHasAllRoles("engine", r)
    \/ \E r \in SeqsUpTo(allRoles, MaxRoleList) : CallHasAnyRole("engine", r)
    \/ \E role \in allRoles : CallValueGetPermissionsForRole("engine", role)
    \/ \E permission \in QueryPermissions :
          CallValueGetRolesWithPermission("engine", permission)
    \/ \E e \in Engines : \E props \in CanPropsOf(e) : RenderCan(e, props)
    \/ Discard

SpecBinding == InitBinding /\ [][NextBinding]_vars

----------------------------------------------------------------------------
(* Renders of a mounted PermissionProvider: useMemo(factory, [userRoles])  *)
(* compares the roles prop with the stored dependency by Object.is, that   *)
(* is by the identity of the array object.  The caller holds one array     *)
(* object, which it may pass at every render and change in place; an array *)
(* made for one render is a new object at each render.                     *)

\* Object.is of two array objects
sameObject(a, b) == a = "held" /\ b = "held"

\* useMemo(factory, [userRoles]) of the provider of an engine: the stored
\* value when the dependency is the same object, else what the factory makes
useMemo(e, dep, userRoles) ==
    IF sameObject(memo[e], dep) THEN Returned(context[e])
    ELSE providerValue(userRoles)

\* The state after a render of the provider of an engine with the array dep
\* as the roles prop; a TypeError of the factory fails the render and the
\* tree is gone.
renderWith(e, dep, userRoles) ==
    /\ call' = [op |-> "PermissionProvider", arg |-> userRoles, engine |-> e]
    /\ ret' = useMemo(e, dep, userRoles)
    /\ context' = [context EXCEPT ![e] = IF ret'.threw THEN Null ELSE ret'.value]
    /\ memo' = [memo EXCEPT ![e] = IF ret'.threw THEN "none" ELSE dep]

\* The mounted provider is rendered again with an array made for this
\* render.
RenderProviderAgain(e, userRoles) ==
    /\ call = NoCall
    /\ context[e] # Null
    /\ renderWith(e, "literal", userRoles)
    /\ UNCHANGED <<config, engine, rendered, kept, rolesArray, stepper>>

\* The provider is mounted, or rendered again, with the array the caller
\* holds.
RenderProviderHeld(e) ==
    /\ call = NoCall
    /\ renderWith(e, "held", rolesArray)
    /\ UNCHANGED <<config, engine, rendered, kept, rolesArray, stepper>>

\* The caller changes the contents of the array it holds (push, splice, an
\* assignment to an index): roles of a context value made from that array is
\* the same object.
MutateRoles(items) ==
    /\ call = NoCall
    /\ items # rolesArray
    /\ rolesArray' = items
    /\ context' = [e \in Engines |->
                      IF memo[e] = "held"
                      THEN [context[e] EXCEPT !.roles = items]
                      ELSE context[e]]
    /\ UNCHANGED <<config, engine, call, ret, rendered, kept, memo, stepper>>

\* the policies under the renders: B grants p:* and x:y
RenderPolicies == {perms \in BindingPolicies : perms["B"].can # << >>}

\* the roles props of the arrays made for one render
RenderRolesProps == {<<"A">>, <<"C", "B">>}

\* the lists passed to canAll and canAny between the renders
RenderPermLists == {<< >>, <<render(ResP, ActR), render(ResU, ActR)>>}

InitRender ==
    /\ \E perms \in RenderPolicies :
          createPermissions(<<"A", "B", "C">>, GraphResources, perms)
    /\ call = NoCall
    /\ ret = Returned({})
    /\ StepperIdle
    /\ NothingRendered

NextRender ==
    \/ \E userRoles \in RenderRolesProps : RenderProvider("engine", userRoles)
    \/ \E userRoles \in RenderRolesProps :
          RenderProviderAgain("engine", userRoles)
    \/ RenderProviderHeld("engine")
    \/ \E items \in SeqsUpTo(allRoles, MaxRoleList) : MutateRoles(items)
    \/ Unmount("engine")
    \/ CallUsePermissions("engine")
    \/ \E permission \in QueryPermissions : CallCan("engine", permission)
    \/ \E p \in RenderPermLists : CallCanAll("engine", p)
    \/ \E p \in RenderPermLists : CallCanAny("engine", p)
    \/ \E role \in allRoles : CallHasRole("engine", role)
    \/ Discard

SpecRender == InitRender /\ [][NextRender]_vars

----------------------------------------------------------------------------
(* Every operation of the engine and of the binding, on one engine.        *)

\* the policies: inherits lists of at most one role, declared or not
AllOpsPolicies(roleSet) ==
    {perms \in PermissionsOver(roleSet, InheritsChoices) :
        \A r \in roleSet : Len(inheritsOf(perms[r])) <= 1}

\* the roles props of the providers
AllOpsRolesProps == {<<"A">>, <<"B", "A">>}

\* the lists passed to canAll and canAny
AllOpsPermLists == {<< >>, <<render(ResP, ActR), render(ResP, ActC)>>}

\* the lists passed to hasAllRoles and hasAnyRole
AllOpsRoleLists == {<< >>, <<"A", "B">>}

InitAllOps ==
    /\ \E roleList \in RoleLists :
         \E perms \in AllOpsPolicies(Range(roleList)) :
            createPermissions(roleList, GraphResources, perms)
    /\ call = NoCall
    /\ ret = Returned({})
    /\ StepperIdle
    /\ NothingRendered

NextAllOps ==
    \/ \E role \in allRoles : CallResolvePermissions(role)
    \/ \E userRoles \in SeqsUpTo(allRoles, MaxRoleList) :
          CallResolveMultipleRoles(userRoles)
    \/ \E role \in allRoles : CallGetPermissionsForRole(role)
    \/ \E permission \in QueryPermissions :
          CallGetRolesWithPermission(permission)
    \/ \E role \in allRoles : \E seenArg \in SeenArgs :
          CallResolveWithSeen(role, seenArg)
    \/ \E userRoles \in AllOpsRolesProps : RenderProvider("engine", userRoles)
    \/ Unmount("engine")
    \/ \E permission \in QueryPermissions : CallCan("engine", permission)
    \/ \E p \in AllOpsPermLists : CallCanAll("engine", p)
    \/ \E p \in AllOpsPermLists : CallCanAny("engine", p)
    \/ \E role \in allRoles : CallHasRole("engine", role)
    \/ \E r \in AllOpsRoleLists : CallHasAllRoles("engine", r)
    \/ \E r \in AllOpsRoleLists : CallHasAnyRole("engine", r)
    \/ Discard

SpecAllOps == InitAllOps /\ [][NextAllOps]_vars

----------------------------------------------------------------------------
(* One top-level resolvePermissions call, run step by step: each frame of  *)
(* stack is one activation, the last frame the innermost.                  *)

Frame(role) == [role |-> role, pc |-> "enter", i |-> 1, perms |-> {}]

Top == stack[Len(stack)]
Popped == SubSeq(stack, 1, Len(stack) - 1)

\* The visited test is skipped.
seenHasNever(role, sn) == FALSE

\* seen.has(role)
seenHas(role, sn) == role \in sn

\* The visited set of the call before is used again.
seenCarried == seen

\* seen = new Set(): the default of the parameter, evaluated at each call
\* that passes no seen
newSeen == {}

\* What an inherited role returns replaces what its caller had collected.
ReturnToCallerReplacing(perms) ==
    IF Len(stack) = 1
    THEN /\ stack' = << >>
         /\ status' = "returned"
         /\ ret' = Returned(perms)
    ELSE /\ stack' = [Popped EXCEPT ![Len(stack) - 1].perms = perms]
         /\ status' = "running"
         /\ ret' = ret

\* The innermost activation returns perms: to its caller's
\* forEach((p) => perms.add(p)), or as the result of the top-level call.
ReturnToCaller(perms) ==
    IF Len(stack) = 1
    THEN /\ stack' = << >>
         /\ status' = "returned"
         /\ ret' = Returned(perms)
    ELSE /\ stack' = [Popped EXCEPT ![Len(stack) - 1].perms = @ \cup perms]
         /\ status' = "running"
         /\ ret' = ret

\* A TypeError unwinds every activation.
ThrowToTop ==
    /\ stack' = << >>
    /\ status' = "threw"
    /\ ret' = Thrown

\* resolvePermissions(role) is called on the engine.
BeginResolve(role) ==
    /\ status # "running"
    /\ call' = [op |-> "resolvePermissions", arg |-> role]
    /\ ret' = Returned({})
    /\ stack' = <<Frame(role)>>
    /\ seen' = newSeen
    /\ expanded' = [r \in StepRoles |-> 0]
    /\ steps' = 0
    /\ status' = "running"
    /\ UNCHANGED <<config, engine, binding, kept>>

\* The entry of an activation: the visited test, seen.add(role), and the
\* expansion of the role's can list.
EnterRole ==
    /\ status = "running"
    /\ Top.pc = "enter"
    /\ steps' = steps + 1
    /\ IF seenHas(Top.role, seen)
       THEN /\ ReturnToCaller({})
            /\ UNCHANGED <<seen, expanded>>
       ELSE /\ seen' = seen \cup {Top.role}
            /\ IF Top.role \notin DOMAIN permissions
               THEN /\ ThrowToTop
                    /\ UNCHANGED expanded
               ELSE LET own == expandCan(permissions[Top.role].can, 1, {}) IN
                    /\ expanded' = [expanded EXCEPT ![Top.role] = @ + 1]
                    /\ IF own.threw
                       THEN ThrowToTop
                       ELSE /\ stack' = [stack EXCEPT ![Len(stack)] =
                                   [@ EXCEPT !.pc = "inherits",
                                             !.perms = own.value]]
                            /\ status' = "running"
                            /\ ret' = ret
    /\ UNCHANGED <<config, engine, binding, kept, call>>

\* One turn of inherits?.forEach: the recursive call for the next entry.
CallInherited ==
    /\ status = "running"
    /\ Top.pc = "inherits"
    /\ Top.i <= Len(inheritsOf(permissions[Top.role]))
    /\ steps' = steps + 1
    /\ stack' = Append([stack EXCEPT ![Len(stack)].i = @ + 1],
                       Frame(inheritsOf(permissions[Top.role])[Top.i]))
    /\ UNCHANGED <<config, engine, binding, kept, call, ret, seen, expanded, status>>

\* The forEach is over: return perms.
ReturnPerms ==
    /\ status = "running"
    /\ Top.pc = "inherits"
    /\ Top.i > Len(inheritsOf(permissions[Top.role]))
    /\ steps' = steps + 1
    /\ ReturnToCaller(Top.perms)
    /\ UNCHANGED <<config, engine, binding, kept, call, seen, expanded>>

StepResolve == EnterRole \/ CallInherited \/ ReturnPerms

NextStep ==
    \/ \E role \in allRoles : BeginResolve(role)
    \/ EnterRole
    \/ CallInherited
    \/ ReturnPerms

SpecStep == InitStep /\ [][NextStep]_vars

----------------------------------------------------------------------------
(* The diamond top -> {left, right} -> bottom, one grant per role, and     *)
(* variants of it with back edges.                                         *)

ResQ == <<"q">>
ActA == <<"a">>
ActB == <<"b">>
ActD == <<"d">>

DiamondRoles == <<"top", "left", "right", "bottom">>

DiamondResources == ResQ :> <<ActA, ActB, ActC, ActD>>

DiamondPolicies ==
    {[top |-> [can |-> <<render(ResQ, ActA)>>, inherits |-> t],
      left |-> [can |-> <<render(ResQ, ActB)>>, inherits |-> l],
      right |-> [can |-> <<render(ResQ, ActC)>>, inherits |-> r],
      bottom |-> b]
        : t \in {<<"left", "right">>, <<"right", "left">>},
          l \in {<<"bottom">>, <<"bottom", "top">>},
          r \in {<<"bottom">>, << >>, <<"right", "bottom">>},
          b \in {[can |-> <<render(ResQ, ActD)>>],
                 [can |-> <<render(ResQ, ActD)>>, inherits |-> <<"top">>],
                 [can |-> <<render(ResQ, Star)>>, inherits |-> <<"left">>]}}

InitDiamond ==
    /\ \E perms \in DiamondPolicies :
          createPermissions(DiamondRoles, DiamondResources, perms)
    /\ call = NoCall
    /\ ret = Returned({})
    /\ StepperIdle
    /\ NothingRendered

SpecDiamond == InitDiamond /\ [][NextStep]_vars

----------------------------------------------------------------------------
(* Sequences of top-level calls on one engine: resolvePermissions run step *)
(* by step, the other calls and the provider renders in between.           *)

\* The caller keeps the outcome of a finished resolvePermissions(role), the
\* first it keeps of that role, and is done with the call.
Keep ==
    /\ status \in {"returned", "threw"}
    /\ call.op = "resolvePermissions"
    /\ kept[call.arg] = NotKept
    /\ kept' = [kept EXCEPT ![call.arg] = ret]
    /\ call' = NoCall
    /\ ret' = Returned({})
    /\ UNCHANGED <<config, engine, binding, stepper>>

\* the policies of the sequences: A grants p:r, B grants p:* and x:y, C
\* grants u:r or valueOf:*; the inherits lists make cycles and self-loops
SequencePolicies ==
    {perms \in PermissionsOver(RoleUniverse, InheritsChoices) :
        /\ "inherits" \in DOMAIN perms["A"] => perms["A"].inherits = <<"B">>
        /\ perms["B"].can # << >>
        /\ perms["B"].inherits \in {<< >>, <<"A">>, <<"C">>}
        /\ perms["C"].inherits \in {<< >>, <<"A">>, <<"C">>}}

\* the roles props of the providers rendered between the calls
SequenceRolesProps == {<<"A">>, <<"C", "B">>}

InitSequence ==
    /\ \E perms \in SequencePolicies :
          createPermissions(<<"A", "B", "C">>, GraphResources, perms)
    /\ call = NoCall
    /\ ret = Returned({})
    /\ StepperIdle
    /\ NothingRendered

\* The code is synchronous: no other call starts while resolvePermissions
\* runs.
NextSequence ==
    \/ \E role \in allRoles : BeginResolve(role)
    \/ EnterRole
    \/ CallInherited
    \/ ReturnPerms
    \/ Keep
    \/ /\ status # "running"
       /\ \E userRoles \in SeqsUpTo(allRoles, MaxRoleList) :
             CallResolveMultipleRoles(userRoles)
    \/ /\ status # "running"
       /\ \E permission \in QueryPermissions :
             CallGetRolesWithPermission(permission)
    \/ /\ status # "running"
       /\ \E userRoles \in SequenceRolesProps :
             RenderProvider("engine", userRoles)
    \/ /\ status # "running"
       /\ Unmount("engine")
    \/ /\ status # "running"
       /\ Discard

SpecSequence == InitSequence /\ [][NextSequence]_vars

----------------------------------------------------------------------------
(* Claims about resolution. *)

\* C1: in a policy whose inherits entries all name declared roles,
\* resolvePermissions(r) without a seen argument returns exactly the union of
\* expandPermission(p) over the patterns p granted by the roles reachable
\* from r (r included); it throws exactly when one of those expansions does.
C1_ResolveIsClosure ==
    (WellFormed /\ call.op = "resolvePermissions") =>
        LET pats == PatternsOf(Reachable(call.arg)) IN
        IF \E p \in pats : expandPermission(p).threw
        THEN ret.threw
        ELSE ret = Returned(UNION {expandPermission(p).value : p \in pats})

C1_Witness ==
    /\ WellFormed
    /\ call.op = "resolvePermissions"
    /\ call.arg = "A"
    /\ InheritedBy("A") = {"B"} /\ InheritedBy("B") = {"C"}
    /\ ~ret.threw
    /\ render(ResU, ActR) \in ret.value
    /\ render(ResP, ActC) \in ret.value

\* the two-role cycle: A grants one literal and inherits B, B grants nothing
\* and inherits A
CycleInstance ==
    /\ permissions["A"].can = <<render(ResP, ActR)>>
    /\ InheritedBy("A") = {"B"}
    /\ permissions["B"].can = << >>
    /\ InheritedBy("B") = {"A"}

\* C3: two declared roles on a common inheritance cycle resolve to the same
\* outcome; in the instance A.can = [p:r], A inherits B, B.can = [],
\* B inherits A, both resolve to exactly {p:r}.
C3_CycleRolesAgree ==
    call.op = "resolvePermissions" =>
        /\ \A b \in allRoles :
              OnCommonCycle(call.arg, b) => resolveTop(b) = ret
        /\ (CycleInstance /\ call.arg \in {"A", "B"}) =>
              ret = Returned({render(ResP, ActR)})

C3_Witness ==
    /\ call.op = "resolvePermissions"
    /\ call.arg = "B"
    /\ CycleInstance
    /\ ret = Returned({render(ResP, ActR)})

\* C4: when an inherits list names an undeclared role, createPermissions
\* fails at construction and no later call throws for it.
C4_PolicyErrorAtConstruction ==
    ~WellFormed => (~built /\ ~ret.threw)

\* C5: resolveMultipleRoles(roles) is the union of resolvePermissions(r) over
\* the roles of the list, each resolved with a fresh visited set (it throws
\* exactly when one of them does); for the empty list it is the empty set.
C5_MultipleIsUnion ==
    call.op = "resolveMultipleRoles" =>
        LET outs == {resolveTop(call.arg[i]) : i \in DOMAIN call.arg} IN
        /\ IF \E o \in outs : o.threw
           THEN ret.threw
           ELSE ret = Returned(UNION {o.value : o \in outs})
        /\ call.arg = << >> => ret = Returned({})

C5_Witness ==
    /\ call.op = "resolveMultipleRoles"
    /\ call.arg = <<"A", "B">>
    /\ ~ret.threw
    /\ resolveTop("A").value \ resolveTop("B").value # {}
    /\ resolveTop("B").value \ resolveTop("A").value # {}

\* a set of roles as a list: each role once, in the order of the universe
ListOf(S) ==
    CHOOSE l \in [1..Cardinality(S) -> S] :
        /\ Range(l) = S
        /\ \A i, j \in DOMAIN l : i < j => Rank(l[i]) < Rank(l[j])

\* C6: for all sets S and T of declared roles, resolveMultipleRoles over
\* S \cup T equals resolveMultipleRoles(S) united with resolveMultipleRoles(T),
\* whatever the order or repetition of the roles in the lists passed: every
\* list of the same roles as the list passed has the same outcome, and that
\* outcome is the union of the outcomes for S and for T whenever S and T
\* together are the roles of the list passed.
C6_UnionLaw ==
    call.op = "resolveMultipleRoles" =>
        /\ \A l \in SeqsUpTo(Range(call.arg), MaxRoleList) :
              Range(l) = Range(call.arg) => resolveMultipleRoles(l) = ret
        /\ \A S, T \in SUBSET Range(call.arg) :
              S \cup T = Range(call.arg) =>
                  LET rs == resolveMultipleRoles(ListOf(S))
                      rt == resolveMultipleRoles(ListOf(T))
                  IN  IF rs.threw \/ rt.threw
                      THEN ret.threw
                      ELSE ret = Returned(rs.value \cup rt.value)

C6_Witness ==
    /\ call.op = "resolveMultipleRoles"
    /\ call.arg = <<"B", "A">>
    /\ ~ret.threw
    /\ resolveMultipleRoles(<<"A", "A">>).value # ret.value
    /\ resolveMultipleRoles(<<"B">>).value # ret.value
    /\ resolveMultipleRoles(<<"B">>).value # {}

\* C22: on an engine built from a policy whose inherits entries all name
\* declared roles, resolvePermissions of a declared role, resolveMultipleRoles
\* of a list of declared roles and getRolesWithPermission of any permission
\* return a value and never throw.
C22_NeverRaises ==
    (WellFormed /\ call.op \in {"resolvePermissions", "resolveMultipleRoles",
                                 "getRolesWithPermission"}) =>
        ~ret.threw

\* C27: inheritance only adds permissions: for declared roles A and B with B
\* reachable from A through inherits edges, resolvePermissions(B) is a subset
\* of resolvePermissions(A), also on a cycle or with several paths to B.
C27_InheritanceMonotone ==
    (call.op = "resolvePermissions" /\ ~ret.threw) =>
        \A b \in Reachable(call.arg) \cap allRoles :
            /\ ~resolveTop(b).threw
            /\ resolveTop(b).value \subseteq ret.value

\* A and B lie on a cycle and C is reached from A directly and through B
C27_Witness ==
    /\ call.op = "resolvePermissions"
    /\ call.arg = "A"
    /\ InheritedBy("A") = {"B", "C"}
    /\ InheritedBy("B") = {"A", "C"}
    /\ ~ret.threw
    /\ resolveTop("C").value # {}
    /\ resolveTop("B").value # resolveTop("C").value
    /\ ret.value # resolveTop("C").value

----------------------------------------------------------------------------
(* Claims about the traversal. *)

\* the inherits entries of all role entries together
TotalInherits ==
    LET RECURSIVE Sum(_)
        Sum(S) == IF S = {} THEN 0
                  ELSE LET r == CHOOSE x \in S : TRUE IN
                       Len(inheritsOf(permissions[r])) + Sum(S \ {r})
    IN Sum(DOMAIN permissions)

\* One activation for the call and one for each inherits entry of an expanded
\* role; an activation takes one step to enter and, when it expands its role,
\* one step per inherits entry and one to return.
StepBound == 1 + Cardinality(DOMAIN permissions) + 2 * TotalInherits

\* C2: on any role graph, with cycles and self-inheritance, a top-level
\* resolvePermissions call terminates (it can always take its next step and
\* takes at most StepBound steps), and expands each role's can list at most
\* once.
C2_TerminatesExpandingOnce ==
    /\ \A r \in RoleUniverse : expanded[r] <= 1
    /\ steps <= StepBound
    /\ status = "running" => ENABLED StepResolve

\* The call run step by step ends as resolvePermissions(role) evaluated at
\* once does.
StepwiseAgrees ==
    status \in {"returned", "threw"} => ret = resolveTop(call.arg)

C2_Witness ==
    /\ status = "returned"
    /\ call.arg = "A"
    /\ "A" \in InheritedBy("A")
    /\ OnCommonCycle("A", "B")
    /\ OnCommonCycle("B", "C")
    /\ expanded = [r \in RoleUniverse |-> 1]

\* the diamond of the claim
DiamondInstance ==
    /\ permissions["top"].inherits = <<"left", "right">>
    /\ permissions["left"].inherits = <<"bottom">>
    /\ permissions["right"].inherits = <<"bottom">>
    /\ permissions["bottom"] = [can |-> <<render(ResQ, ActD)>>]

\* the innermost activation is about to enter a role that the call has
\* visited before
SecondVisit ==
    /\ status = "running"
    /\ Top.pc = "enter"
    /\ Top.role \in seen

\* C25: when a role is reached a second time within one top-level
\* resolvePermissions call (a shared ancestor of a diamond, a back edge of a
\* cycle), that visit gives its caller the empty set and expands nothing;
\* the top-level result is still the set of the permissions of the role's
\* closure, each role's grants added once; for the diamond
\* top -> {left, right} -> bottom with one grant per role,
\* resolvePermissions(top) has exactly 4 elements.
C25_SecondVisitEmpty ==
    /\ [][SecondVisit =>
             /\ stack' = Popped
             /\ seen' = seen
             /\ expanded' = expanded]_vars
    /\ [](status = "returned" =>
             /\ ret = Returned(UNION {expandPermission(p).value
                                : p \in PatternsOf(Reachable(call.arg))})
             /\ \A r \in Reachable(call.arg) : expanded[r] = 1
             /\ (DiamondInstance /\ call.arg = "top") =>
                   Cardinality(ret.value) = 4)

C25_Witness ==
    /\ DiamondInstance
    /\ call.arg = "top"
    /\ status = "returned"
    /\ seen = {"top", "left", "right", "bottom"}
    /\ expanded["bottom"] = 1
    /\ steps = 13
    /\ Cardinality(ret.value) = 4

----------------------------------------------------------------------------
(* Claims about wildcard expansion. *)

\* the permissions of one declared resource, as (resource, action) pairs
\* rendered "resource:action"
EntriesOf(resource) ==
    {render(resource, action) : action \in Range(resources[resource])}

\* the permissions of all declared resources
Catalog == UNION {EntriesOf(resource) : resource \in DOMAIN resources}

\* the role's entry grants exactly this one pattern and inherits nothing
GrantsOnly(role, pattern) ==
    /\ permissions[role].can = <<pattern>>
    /\ InheritedBy(role) = {}

IsResourceWildcard(pattern) == endsWith(pattern, ColonStar)

IsLiteral(pattern) == pattern # Star /\ ~IsResourceWildcard(pattern)

\* C7: the pattern "*" expands to the entire catalog, and a role whose can
\* list is ["*"] and that inherits nothing resolves to allPermissions.
C7_StarIsCatalog ==
    /\ (call.op = "expandPermission" /\ call.arg = Star) =>
          (ret = Returned(allPermissions) /\ ret.value = Catalog)
    /\ (call.op = "resolvePermissions" /\ GrantsOnly(call.arg, Star)) =>
          (ret = Returned(allPermissions) /\ ret.value = Catalog)

C7_Witness ==
    /\ call.op = "resolvePermissions"
    /\ GrantsOnly(call.arg, Star)
    /\ Cardinality(DOMAIN resources) = 3
    /\ Cardinality(allPermissions) >= 4
    /\ ret = Returned(allPermissions)

\* C8: for every declared resource R, "R:*" expands to exactly the catalog
\* entries "R:a" of the actions a declared on R, and to no permission of any
\* other resource.
C8_ResourceWildcardOwnEntries ==
    call.op = "expandPermission" =>
        \A R \in DOMAIN resources :
            call.arg = render(R, Star) =>
                /\ ret = Returned(EntriesOf(R))
                /\ \A R2 \in DOMAIN resources \ {R} :
                      ret.value \cap EntriesOf(R2) = {}

\* C9: for every name that is no key of resources, "name:*" expands to the
\* empty set without an error, and a role granting only that pattern
\* resolves to the empty set.
C9_UnknownWildcardEmpty ==
    \A role \in allRoles : \A i \in DOMAIN permissions[role].can :
        LET pattern == permissions[role].can[i] IN
        (IsResourceWildcard(pattern)
            /\ sliceOff(pattern, 2) \notin DOMAIN resources) =>
            /\ (call.op = "expandPermission" /\ call.arg = pattern) =>
                  ret = Returned({})
            /\ (call.op = "resolvePermissions" /\ call.arg = role
                  /\ GrantsOnly(role, pattern)) =>
                  ret = Returned({})

\* C10: a pattern that is neither "*" nor ends in ":*" expands to the
\* singleton of that literal, in the catalog or not; a role granting it
\* resolves, without an error, to a set that contains it.
C10_LiteralSingleton ==
    /\ (call.op = "expandPermission" /\ IsLiteral(call.arg)) =>
          ret = Returned({call.arg})
    /\ call.op = "resolvePermissions" =>
          \A i \in DOMAIN permissions[call.arg].can :
              LET pattern == permissions[call.arg].can[i] IN
              (IsLiteral(pattern) /\ GrantsOnly(call.arg, pattern)) =>
                  (~ret.threw /\ pattern \in ret.value)

C10_Witness ==
    /\ call.op = "resolvePermissions"
    /\ GrantsOnly(call.arg, LitXY)
    /\ allPermissions # {}
    /\ LitXY \notin allPermissions
    /\ ret = Returned({LitXY})

\* every literal pattern of every can list is a catalog entry
LiteralsInCatalog ==
    \A r \in DOMAIN permissions : \A i \in DOMAIN permissions[r].can :
        IsLiteral(permissions[r].can[i]) =>
            permissions[r].can[i] \in allPermissions

\* C28: if every literal pattern in every can list is a catalog entry, what
\* resolvePermissions and resolveMultipleRoles return is a subset of
\* allPermissions, and "*" expands to the union of the expansions of "R:*"
\* over the declared resources R.
C28_WithinCatalog ==
    LiteralsInCatalog =>
        /\ (call.op \in {"resolvePermissions", "resolveMultipleRoles"}
              /\ ~ret.threw) =>
              ret.value \subseteq allPermissions
        /\ \A R \in DOMAIN resources : ~expandPermission(render(R, Star)).threw
        /\ expandPermission(Star) =
              Returned(UNION {expandPermission(render(R, Star)).value
                                : R \in DOMAIN resources})

\* the role is granted the wildcard of p:r, one of three declared resources
C28_Witness ==
    /\ call.op = "resolveMultipleRoles"
    /\ call.arg = <<"A", "A">>
    /\ GrantsOnly("A", render(ResPR, Star))
    /\ Cardinality(DOMAIN resources) = 3
    /\ Len(resources[ResPR]) = 2
    /\ ret = Returned(EntriesOf(ResPR))
    /\ ret.value # allPermissions

----------------------------------------------------------------------------
(* Claims about the catalog and the reverse lookup. *)

\* C11: allPermissions is exactly the set of the strings "resource:action"
\* for every declared resource and every action declared on it: each such
\* pair is in it, and everything in it is such a pair.
C11_CatalogExact ==
    /\ \A resource \in DOMAIN resources :
          \A i \in DOMAIN resources[resource] :
              render(resource, resources[resource][i]) \in allPermissions
    /\ \A permission \in allPermissions :
          \E resource \in DOMAIN resources :
              \E i \in DOMAIN resources[resource] :
                  permission = render(resource, resources[resource][i])

\* three resources of two actions each, two of the six pairs rendered alike
C11_Witness ==
    /\ Cardinality(DOMAIN resources) = 3
    /\ \A resource \in DOMAIN resources : Len(resources[resource]) = 2
    /\ Cardinality(allPermissions) = 5
    /\ render(ResP, ActRC) \in allPermissions

\* a role holds a permission directly, through a wildcard or through
\* inheritance: a pattern granted by a role reachable from it expands to it
Holds(role, permission) ==
    \E pattern \in PatternsOf(Reachable(role)) :
        permission \in expandPermission(pattern).value

\* C12: getRolesWithPermission(p), for p in the catalog or not, is the set of
\* the declared roles r with p in resolvePermissions(r), that is of the roles
\* that hold p directly, through a wildcard or through inheritance, and the
\* empty set when no role holds p; it throws exactly when resolvePermissions
\* throws for a declared role.
C12_ReverseLookup ==
    call.op = "getRolesWithPermission" =>
        IF \E r \in Range(roles) : resolveTop(r).threw
        THEN ret.threw
        ELSE /\ ret = Returned({r \in Range(roles) :
                                call.arg \in resolveTop(r).value})
             /\ ret.value = {r \in Range(roles) : Holds(r, call.arg)}
             /\ (\A r \in Range(roles) : ~Holds(r, call.arg)) =>
                    ret.value = {}

\* p:c is asked about: B holds it through p:*, A only through inheriting B,
\* C does not hold it
C12_Witness ==
    /\ call.op = "getRolesWithPermission"
    /\ call.arg = render(ResP, ActC)
    /\ roles = <<"A", "B", "C">>
    /\ InheritedBy("A") = {"B"}
    /\ render(ResP, Star) \in Range(permissions["B"].can)
    /\ ret = Returned({"A", "B"})

----------------------------------------------------------------------------
(* Claims about the binding. *)

\* a consumer of the engine has called a function of the context value that
\* a PermissionProvider of the engine provides
Asked(op) ==
    /\ call.op = op
    /\ call.engine = "engine"
    /\ context["engine"] # Null

\* the roles prop of the provider above the consumer
ActiveRoles == context["engine"].roles

\* C13: under a PermissionProvider with active roles S the context's
\* permissions are resolveMultipleRoles(S), and can(p) is true exactly when p
\* is in that set, that is when an active role holds p directly, by wildcard
\* or by inheritance.
C13_CanIsMembership ==
    /\ \A e \in Engines :
          context[e] # Null =>
              Returned(context[e].permissions) =
                  resolveMultipleRoles(context[e].roles)
    /\ Asked("can") =>
          /\ ret = Returned(call.arg \in resolveMultipleRoles(ActiveRoles).value)
          /\ ret.value = (\E r \in Range(ActiveRoles) : Holds(r, call.arg))

\* p:c is asked of the active roles [C, A]: only A holds it, by inheriting B
\* that grants p:*
C13_Witness ==
    /\ Asked("can")
    /\ ActiveRoles = <<"C", "A">>
    /\ call.arg = render(ResP, ActC)
    /\ InheritedBy("A") = {"B"}
    /\ ~Holds("C", call.arg)
    /\ ret = Returned(TRUE)

\* C14: canAll(ps) is true exactly when every element of ps is in the
\* resolved permissions of the active roles; for the empty list it is true
\* whatever the active roles grant.
C14_CanAllEvery ==
    Asked("canAll") =>
        /\ ret = Returned(Range(call.arg) \subseteq
                              resolveMultipleRoles(ActiveRoles).value)
        /\ call.arg = << >> => ret = Returned(TRUE)

\* the empty list under active roles that grant nothing
C14_Witness ==
    /\ Asked("canAll")
    /\ call.arg = << >>
    /\ ActiveRoles = <<"B">>
    /\ context["engine"].permissions = {}
    /\ ret = Returned(TRUE)

\* C15: canAny(ps) is true exactly when at least one element of ps is in the
\* resolved permissions of the active roles; for the empty list it is false
\* whatever the active roles grant.
C15_CanAnySome ==
    Asked("canAny") =>
        /\ ret = Returned(Range(call.arg) \cap
                              resolveMultipleRoles(ActiveRoles).value # {})
        /\ call.arg = << >> => ret = Returned(FALSE)

\* the first permission of the list is not held, the second is
C15_Witness ==
    /\ Asked("canAny")
    /\ call.arg = <<render(ResU, ActR), render(ResP, ActR)>>
    /\ ActiveRoles = <<"A">>
    /\ render(ResU, ActR) \notin context["engine"].permissions
    /\ ret = Returned(TRUE)

\* C16: hasRole(r) is true exactly when r is an element of the roles list
\* passed to the provider; a role that an active role only inherits does not
\* count as held.
C16_HasRoleIsActive ==
    Asked("hasRole") =>
        /\ ret = Returned(\E i \in DOMAIN ActiveRoles : ActiveRoles[i] = call.arg)
        /\ (call.arg \notin Range(ActiveRoles)
               /\ \E r \in Range(ActiveRoles) : call.arg \in Reachable(r)) =>
              ret = Returned(FALSE)

\* B is asked about under the active roles [A], A inheriting B: what B grants
\* is granted, B is not held
C16_Witness ==
    /\ Asked("hasRole")
    /\ call.arg = "B"
    /\ ActiveRoles = <<"A">>
    /\ InheritedBy("A") = {"B"}
    /\ render(ResP, ActC) \in context["engine"].permissions
    /\ ret = Returned(FALSE)

\* C17: hasAllRoles(rs) is true exactly when every element of rs is an active
\* role and hasAnyRole(rs) exactly when at least one is; for the empty list
\* hasAllRoles is true and hasAnyRole is false.
C17_HasAllAnyRoles ==
    /\ Asked("hasAllRoles") =>
          /\ ret = Returned(Range(call.arg) \subseteq Range(ActiveRoles))
          /\ call.arg = << >> => ret = Returned(TRUE)
    /\ Asked("hasAnyRole") =>
          /\ ret = Returned(Range(call.arg) \cap Range(ActiveRoles) # {})
          /\ call.arg = << >> => ret = Returned(FALSE)

\* one of the two roles asked about is active, the other only inherited
C17_Witness ==
    /\ Asked("hasAllRoles")
    /\ call.arg = <<"A", "B">>
    /\ ActiveRoles = <<"A">>
    /\ InheritedBy("A") = {"B"}
    /\ ret = Returned(FALSE)

\* the permissions of the do prop, one permission being a list of one
DoList(props) ==
    IF props.do.isArray THEN props.do.items ELSE <<props.do.item>>

\* the predicate that the mode prop chooses holds of the do prop
ModeHolds(props, held) ==
    IF "mode" \notin DOMAIN props \/ props.mode = "all"
    THEN Range(DoList(props)) \subseteq held
    ELSE Range(DoList(props)) \cap held # {}

\* C19: Can renders its children exactly when the predicate chosen by mode
\* holds of the given permissions (canAll for "all" or no mode, canAny for
\* "any"), one permission being a list of one; otherwise it renders the
\* fallback, which is nothing when none is given.  Children and fallback are
\* never both rendered.
C19_CanRendersByMode ==
    (call.op = "Can" /\ context[call.engine] # Null) =>
        LET props == call.arg
            held == context[call.engine].permissions
        IN  /\ ~ret.threw
            /\ rendered = IF ModeHolds(props, held) THEN {"children"}
                          ELSE IF "fallback" \in DOMAIN props
                               THEN {"fallback"} ELSE {}
            /\ ~({"children", "fallback"} \subseteq rendered)

\* no mode is given, one of the two permissions is held, a fallback is given
C19_Witness ==
    /\ call.op = "Can"
    /\ call.engine = "engine"
    /\ context["engine"] # Null
    /\ "mode" \notin DOMAIN call.arg
    /\ call.arg.do.isArray
    /\ call.arg.do.items = <<render(ResP, ActR), render(ResU, ActR)>>
    /\ context["engine"].permissions = {render(ResP, ActR)}
    /\ "fallback" \in DOMAIN call.arg
    /\ rendered = {"fallback"}

\* C20: usePermissions, and therefore Can, called where no PermissionProvider
\* of the same engine is an ancestor throws the error "usePermissions must be
\* used within PermissionProvider" and returns no value; under a provider it
\* returns the provider's context value and does not throw.
C20_ContextError ==
    call.op \in {"usePermissions", "Can"} =>
        IF context[call.engine] = Null
        THEN /\ ret.threw
             /\ "message" \in DOMAIN ret
             /\ ret.message = "usePermissions must be used within PermissionProvider"
             /\ ret.value = {}
        ELSE /\ ~ret.threw
             /\ call.op = "usePermissions" => ret.value = context[call.engine]

\* a provider of the other engine is mounted, none of the engine
C20_Witness ==
    /\ call.op = "usePermissions"
    /\ call.engine = "engine"
    /\ context["engine"] = Null
    /\ context["other"] # Null
    /\ ret = ContextError

\* C24: getPermissionsForRole and getRolesWithPermission reached through the
\* context answer about the policy, not about the caller: they return what
\* the engine's resolvePermissions(role) and getRolesWithPermission(permission)
\* return, whatever active roles the provider was given.
C24_LookupsIgnoreActiveRoles ==
    /\ Asked("value.getPermissionsForRole") => ret = resolveTop(call.arg)
    /\ Asked("value.getRolesWithPermission") =>
          ret = getRolesWithPermission(call.arg)

\* the active role B grants nothing; A, which is not active, is asked about
C24_Witness ==
    /\ Asked("value.getPermissionsForRole")
    /\ ActiveRoles = <<"B">>
    /\ context["engine"].permissions = {}
    /\ call.arg = "A"
    /\ ret = Returned({render(ResP, ActR)})

\* C30: Can given an empty permission list renders its children in mode
\* "all" (the default) and its fallback in mode "any", for every active-role
\* list, the empty one included; given a single permission p it renders its
\* children exactly when can(p) holds, in either mode.
C30_CanBoundaries ==
    (call.op = "Can" /\ context[call.engine] # Null) =>
        LET props == call.arg
            fallback == IF "fallback" \in DOMAIN props THEN {"fallback"} ELSE {}
            any == "mode" \in DOMAIN props /\ props.mode = "any"
        IN  /\ (props.do.isArray /\ props.do.items = << >>) =>
                  rendered = IF any THEN fallback ELSE {"children"}
            /\ ~props.do.isArray =>
                  rendered = IF can(context[call.engine], props.do.item)
                             THEN {"children"} ELSE fallback

\* the empty list in mode "any" under active roles that grant p:r
C30_Witness ==
    /\ call.op = "Can"
    /\ call.engine = "engine"
    /\ context["engine"] # Null
    /\ context["engine"].permissions # {}
    /\ call.arg.do.isArray
    /\ call.arg.do.items = << >>
    /\ "mode" \in DOMAIN call.arg
    /\ call.arg.mode = "any"
    /\ "fallback" \in DOMAIN call.arg
    /\ rendered = {"fallback"}

----------------------------------------------------------------------------
(* Claims about sequences of calls. *)

\* C18: resolvePermissions(role) is a function of the role and the policy
\* only: after any sequence of earlier resolvePermissions, resolveMultipleRoles
\* and getRolesWithPermission calls and provider renders on the engine, a
\* finished call has the outcome that the caller kept of an earlier call of
\* the same role, which is the outcome computed from the role and the policy
\* with an empty visited set.
C18_ResolveIsPure ==
    (call.op = "resolvePermissions" /\ status \in {"returned", "threw"}) =>
        /\ kept[call.arg] # NotKept => ret = kept[call.arg]
        /\ ret = resolveTop(call.arg)

\* A is resolved again after A and B were resolved and kept and a provider
\* was rendered; the roles lie on one cycle, so that each call visits all
C18_Witness ==
    /\ call.op = "resolvePermissions"
    /\ call.arg = "A"
    /\ status = "returned"
    /\ kept["A"] # NotKept
    /\ kept["B"] # NotKept
    /\ context["engine"] # Null
    /\ seen = {"A", "B", "C"}
    /\ ret.value # {}

----------------------------------------------------------------------------
(* Claims about renders of the provider. *)

\* C21: after any sequence of provider renders the context's permissions and
\* role set, from which can, canAll, canAny and hasRole answer, are those of
\* the contents of the roles prop at the last render, also when the same
\* array object was changed in place since the render before.
C21_RecomputedByValue ==
    (call.op = "PermissionProvider" /\ ~ret.threw) =>
        LET value == context[call.engine]
            now == resolveMultipleRoles(call.arg)
        IN  /\ value.roleSet = Range(call.arg)
            /\ ~now.threw => value.permissions = now.value

\* C29: every context value a consumer can read is consistent: hasRole holds
\* exactly of the elements of its roles list and its permissions are
\* resolveMultipleRoles of that list, also after the caller changed the
\* contents of the array it passed.
C29_ContextConsistent ==
    \A e \in Engines :
        context[e] # Null =>
            LET value == context[e]
                now == resolveMultipleRoles(value.roles)
            IN  /\ \A r \in RoleUniverse :
                      hasRole(value, r) <=> r \in Range(value.roles)
                /\ ~now.threw => value.permissions = now.value

----------------------------------------------------------------------------
(* Claims about all operations together. *)

\* C23: no operation of the engine or the binding (resolvePermissions with or
\* without a visited set, resolveMultipleRoles, getPermissionsForRole,
\* getRolesWithPermission, a provider render, a context predicate) changes
\* allPermissions, allRoles, or the roles, resources and role entries of the
\* policy: they stay what they were at construction.
C23_PolicyNeverChanges ==
    [][UNCHANGED <<roles, resources, permissions, allRoles, allPermissions>>]_vars

\* allRoles itself was passed as the visited set of a call on a role that
\* inherits an undeclared role, under a mounted provider
C23_Witness ==
    /\ call.op = "resolvePermissions(seen)"
    /\ call.seen.object = "allRoles"
    /\ call.arg = "B"
    /\ roles = <<"A", "B">>
    /\ InheritedBy("B") = {"C"}
    /\ context["engine"] # Null
    /\ allRoles = {"A", "B"}
    /\ allPermissions = Catalog
    /\ ret = Resolved({}, {"A", "B"})

RECURSIVE ReachAvoiding(_, _)
ReachAvoiding(S, sn) ==
    LET T == S \cup (UNION {InheritedBy(r) : r \in S} \ sn) IN
    IF T = S THEN S ELSE ReachAvoiding(T, sn)

\* the roles reachable from role along inherits paths on which no role is
\* in sn
ReachableAvoiding(role, sn) ==
    IF role \in sn THEN {} ELSE ReachAvoiding({role}, sn)

\* the members of the Set passed as seen, before the call
SeenBefore ==
    IF call.seen.object = "allRoles" THEN Range(roles) ELSE call.seen.items

\* C26: resolvePermissions(role, seen) with a visited set of the caller
\* returns exactly the grants of the roles reachable from role along inherits
\* paths that avoid the roles in seen (the empty set when role is in seen),
\* and leaves seen extended with exactly those roles; the result is a subset
\* of resolvePermissions(role), possibly a strict one.
C26_SeenRestrictsResult ==
    (call.op = "resolvePermissions(seen)" /\ WellFormed) =>
        LET visited == ReachableAvoiding(call.arg, SeenBefore)
            pats == PatternsOf(visited)
        IN  IF \E p \in pats : expandPermission(p).threw
            THEN ret.threw
            ELSE /\ ret = Resolved(UNION {expandPermission(p).value : p \in pats},
                                   SeenBefore \cup visited)
                 /\ call.arg \in SeenBefore => ret = Resolved({}, SeenBefore)
                 /\ ~resolveTop(call.arg).threw =>
                       ret.value \subseteq resolveTop(call.arg).value

\* the inner call on B in the cycle A <-> B: A is in seen, B grants nothing
\* itself, and resolvePermissions(B) is {p:r}
C26_Witness ==
    /\ call.op = "resolvePermissions(seen)"
    /\ call.arg = "B"
    /\ call.seen = [object |-> "own", items |-> {"A"}]
    /\ InheritedBy("A") = {"B"}
    /\ InheritedBy("B") = {"A"}
    /\ permissions["B"].can = << >>
    /\ ret = Resolved({}, {"A", "B"})
    /\ resolveTop("B") = Returned({render(ResP, ActR)})

====
